---- MODULE Spec2Model ----
(***************************************************************************)
(* Model of the web-asset bundlers of DHT_Hunter:                          *)
(*   bundle_web_files.py   (combined mode: one web_bundle.hpp)             *)
(*   tools/web_bundler.py  (split mode: one header per asset + an index)   *)
(* Text is modelled as sequences of one-character strings, so that the     *)
(* identifier sanitizer, the extension splitter and the hex emitter work   *)
(* on characters as the Python code does.                                  *)
(***************************************************************************)
EXTENDS Integers, Sequences, FiniteSets, TLC

VARIABLES
    arg,        \* input of the pure function under check (characters or bytes)
    res,        \* [done, val]: its result once applied
    fs,         \* the asset tree on disk: [root, files, dirs], in listing order
    data,       \* content of each file of the tree, by tree path
    run,        \* number of the current bundler run (0: none started yet)
    mode,       \* "combined" | "split" | "none": the script of the current run
    pc,         \* "idle" | "files" | "index" | "done" | "failed"
    web_files,  \* the list collected by the os.walk loop
    next_file,  \* position of the per-file loop in web_files
    processed_files, \* (rel_path, var_name) of the files handled so far
    outDir,     \* the output directory: set of [name, content]
    stdout,     \* the lines printed by the current run
    ioError,    \* TRUE once the operating system failed a read or a write
    lastRun     \* [mode, ok, out] of the preceding run

vars == <<arg, res, fs, data, run, mode, pc, web_files, next_file,
          processed_files, outDir, stdout, ioError, lastRun>>

pureVars == <<arg, res>>

bundlerVars == <<fs, data, run, mode, pc, web_files, next_file,
                 processed_files, outDir, stdout, ioError, lastRun>>

-----------------------------------------------------------------------------
(* Bounds *)

MaxSanLen == 3      \* longest generated input of sanitize_var_name
MaxPathLen == 5     \* longest generated input of get_mime_type
MaxHexLen == 3      \* bytes appended to a seed content
MaxRootFiles == 2   \* files directly under the asset root
MaxRuns == 2        \* bundler runs in one behaviour

-----------------------------------------------------------------------------
(* Characters *)

LowerCase == <<"a","b","c","d","e","f","g","h","i","j","k","l","m",
               "n","o","p","q","r","s","t","u","v","w","x","y","z">>
UpperCase == <<"A","B","C","D","E","F","G","H","I","J","K","L","M",
               "N","O","P","Q","R","S","T","U","V","W","X","Y","Z">>
DigitChars == <<"0","1","2","3","4","5","6","7","8","9">>
HexChars == <<"0","1","2","3","4","5","6","7","8","9","a","b","c","d","e","f">>

Range(s) == {s[i] : i \in DOMAIN s}

Lowers == Range(LowerCase)
Uppers == Range(UpperCase)
Digits == Range(DigitChars)
Alnum == Lowers \cup Uppers \cup Digits

IndexOf(s, c) == CHOOSE i \in DOMAIN s : s[i] = c

\* str.lower() of one character
LowerChar(c) == IF c \in Uppers THEN LowerCase[IndexOf(UpperCase, c)] ELSE c

\* str.lower()
Lower(s) == [i \in 1..Len(s) |-> LowerChar(s[i])]

\* s[i:] for a 1-based first index i
From(s, i) == SubSeq(s, i, Len(s))

\* the last index of character c in s, 0 when absent (str.rfind + 1)
RFind(s, c) ==
    LET hits == {i \in 1..Len(s) : s[i] = c}
    IN IF hits = {} THEN 0 ELSE CHOOSE i \in hits : \A j \in hits : j <= i

-----------------------------------------------------------------------------
(* sanitize_var_name *)

\* re.sub(r'[^a-zA-Z0-9]', '_', name)
ReSub(name) == [i \in 1..Len(name) |-> IF name[i] \in Alnum THEN name[i] ELSE "_"]

sanitize_no_prefix(name) == ReSub(name)

sanitize_var_name(name) ==
    LET n == ReSub(name)
    IN IF n[1] \in Digits THEN <<"_">> \o n ELSE n

-----------------------------------------------------------------------------
(* get_mime_type *)

\* os.path.splitext(p)[1]: the extension starts at the last dot of the last
\* component, unless only dots precede it in that component
SplitExt(p) ==
    LET sepIndex == RFind(p, "/")
        dotIndex == RFind(p, ".")
    IN IF dotIndex > sepIndex
          /\ \E k \in (sepIndex + 1)..(dotIndex - 1) : p[k] # "."
       THEN From(p, dotIndex)
       ELSE <<>>

OctetStream == "application/octet-stream"

mime_types ==
    { [ext |-> <<".","h","t","m","l">>, mime |-> "text/html"],
      [ext |-> <<".","c","s","s">>,     mime |-> "text/css"],
      [ext |-> <<".","j","s">>,         mime |-> "application/javascript"],
      [ext |-> <<".","j","s","o","n">>, mime |-> "application/json"],
      [ext |-> <<".","p","n","g">>,     mime |-> "image/png"],
      [ext |-> <<".","j","p","g">>,     mime |-> "image/jpeg"],
      [ext |-> <<".","j","p","e","g">>, mime |-> "image/jpeg"],
      [ext |-> <<".","g","i","f">>,     mime |-> "image/gif"],
      [ext |-> <<".","s","v","g">>,     mime |-> "image/svg+xml"],
      [ext |-> <<".","i","c","o">>,     mime |-> "image/x-icon"] }

\* dict.get(key, default)
DictGet(table, key, default) ==
    IF \E e \in table : e.ext = key
    THEN (CHOOSE e \in table : e.ext = key).mime
    ELSE default

get_mime_type_case_sensitive(file_path) ==
    DictGet(mime_types, SplitExt(file_path), OctetStream)

get_mime_type(file_path) ==
    DictGet(mime_types, Lower(SplitExt(file_path)), OctetStream)

-----------------------------------------------------------------------------
(* The byte-array literal *)

\* f"{byte:02x}"
Hex02(byte) == <<HexChars[(byte \div 16) + 1], HexChars[(byte % 16) + 1]>>

\* one iteration of the loop over enumerate(content); i is 0-based
EmitNoPad(i, byte) ==
    (IF i % 12 = 0 THEN <<"\n", " ", " ", " ", " ">> ELSE <<>>)
    \o <<"0", "x">>
    \o (IF byte < 16 THEN <<HexChars[byte + 1]>> ELSE Hex02(byte))
    \o <<",", " ">>

EmitByte(i, byte) ==
    (IF i % 12 = 0 THEN <<"\n", " ", " ", " ", " ">> ELSE <<>>)
    \o <<"0", "x">> \o Hex02(byte) \o <<",", " ">>

RECURSIVE EmitBytes(_, _)
\* the text written for content[1..n]
EmitBytes(content, n) ==
    IF n = 0 THEN <<>>
    ELSE EmitBytes(content, n - 1) \o EmitByte(n - 1, content[n])

\* the text between "= {\n" and "\n};" of an asset's declaration
ByteLiteral(content) == EmitBytes(content, Len(content))

HexValue(c) == IndexOf(HexChars, c) - 1

RECURSIVE HexNumber(_, _)
\* value of the hexadecimal digits t[1..n]
HexNumber(t, n) ==
    IF n = 0 THEN 0 ELSE 16 * HexNumber(t, n - 1) + HexValue(t[n])

WhiteSpace == {"\n", " "}

\* the positions of the commas that end the elements of a braced list
Commas(text) == {i \in 1..Len(text) : text[i] = ","}

\* the position of the k-th comma, 0 for k = 0
NthComma(text, k) ==
    IF k = 0 THEN 0
    ELSE CHOOSE i \in Commas(text) : Cardinality({j \in Commas(text) : j <= i}) = k

NotWhiteSpace(c) == c \notin WhiteSpace

\* the elements of the literal as written, without separators and white space
Elements(text) ==
    [k \in 1..Cardinality(Commas(text)) |->
        SelectSeq(SubSeq(text, NthComma(text, k - 1) + 1, NthComma(text, k) - 1),
                  NotWhiteSpace)]

\* what a C++ compiler reads from the braced list: the value of each 0x literal
DecodeLiteral(text) ==
    LET els == Elements(text)
    IN [k \in 1..Len(els) |-> HexNumber(From(els[k], 3), Len(els[k]) - 2)]

-----------------------------------------------------------------------------
(* Paths *)

Str_web == <<"w","e","b">>
Str_path == <<"_","p","a","t","h">>
Str_mime == <<"_","m","i","m","e">>
Str_hpp == <<".","h","p","p">>
Str_web_bundle_hpp == <<"w","e","b","_","b","u","n","d","l","e",".","h","p","p">>
Str_dotdot == <<".",".">>

\* os.path.join(a, b) for a relative b
PathJoin(a, b) == a \o <<"/">> \o b

RECURSIVE SplitPath(_, _, _)
\* the non-empty components of a path: [x for x in p.split('/') if x]
SplitPath(p, cur, acc) ==
    IF p = <<>> THEN (IF cur = <<>> THEN acc ELSE Append(acc, cur))
    ELSE IF Head(p) = "/"
         THEN SplitPath(Tail(p), <<>>, IF cur = <<>> THEN acc ELSE Append(acc, cur))
         ELSE SplitPath(Tail(p), Append(cur, Head(p)), acc)

Components(p) == SplitPath(p, <<>>, <<>>)

RECURSIVE JoinAll(_)
\* os.path.join(*parts)
JoinAll(parts) ==
    IF Len(parts) = 0 THEN <<>>
    ELSE IF Len(parts) = 1 THEN parts[1]
    ELSE PathJoin(parts[1], JoinAll(Tail(parts)))

\* len(os.path.commonprefix([a, b])) on component lists
CommonPrefixLen(a, b) ==
    LET same == {n \in 0..Len(a) : n <= Len(b) /\ \A k \in 1..n : a[k] = b[k]}
    IN CHOOSE n \in same : \A m \in same : m <= n

\* os.path.relpath(path, start); both are relative to the working directory
RelPath(path, start) ==
    LET start_list == Components(start)
        path_list == Components(path)
        i == CommonPrefixLen(start_list, path_list)
        rel_list == [k \in 1..(Len(start_list) - i) |-> Str_dotdot]
                    \o SubSeq(path_list, i + 1, Len(path_list))
    IN IF rel_list = <<>> THEN <<".">> ELSE JoinAll(rel_list)

-----------------------------------------------------------------------------
(* The asset tree and the traversal *)

\* os.walk(top): the top directory first, then each of its subdirectories;
\* a top that does not exist yields nothing (onerror is None)
Walk(top) ==
    IF top # fs.root THEN <<>>
    ELSE <<[root |-> top, files |-> fs.files]>>
         \o [k \in 1..Len(fs.dirs) |->
                [root |-> PathJoin(top, fs.dirs[k].name), files |-> fs.dirs[k].files]]

\* file.startswith('.')
IsHiddenName(file) == file[1] = "."

RECURSIVE CollectFiles(_, _)
\* the inner loop: the paths of the files of one directory that are kept
CollectFiles(root, files) ==
    IF files = <<>> THEN <<>>
    ELSE (IF IsHiddenName(Head(files)) THEN <<>> ELSE <<PathJoin(root, Head(files))>>)
         \o CollectFiles(root, Tail(files))

RECURSIVE CollectWalk(_)
\* the outer loop over os.walk
CollectWalk(w) ==
    IF w = <<>> THEN <<>>
    ELSE CollectFiles(Head(w).root, Head(w).files) \o CollectWalk(Tail(w))

\* every file of the tree, hidden or not
AllFilePaths(tree) ==
    {PathJoin(tree.root, tree.files[k]) : k \in 1..Len(tree.files)}
    \cup UNION {{PathJoin(PathJoin(tree.root, tree.dirs[d].name), tree.dirs[d].files[k]) :
                    k \in 1..Len(tree.dirs[d].files)} : d \in 1..Len(tree.dirs)}

-----------------------------------------------------------------------------
(* Generated files *)

\* the three declarations generated for one asset
Block(file_path, rel_path, content) ==
    [var |-> sanitize_var_name(rel_path),
     rel |-> rel_path,
     lit |-> ByteLiteral(content),
     path |-> rel_path,
     mime |-> get_mime_type(file_path),
     whole |-> TRUE]

\* what bundle_web_files.py has written of a block when the read fails:
\* the comment and the opening line of the array
OpenBlock(rel_path) ==
    [var |-> sanitize_var_name(rel_path),
     rel |-> rel_path,
     lit |-> <<>>,
     path |-> <<>>,
     mime |-> "",
     whole |-> FALSE]

\* a statement  map[key] = value;  the key is a string literal or an identifier
Entry(literal, key, val) == [literal |-> literal, key |-> key, val |-> val]

EmptyFile(kind) ==
    [kind |-> kind, includes |-> <<>>, blocks |-> <<>>,
     files |-> <<>>, paths |-> <<>>, mimes |-> <<>>, whole |-> FALSE]

\* open(path, 'a') in place of open(path, 'w')
WriteFileAppending(dir, name, content) ==
    IF \E f \in dir : f.name = name
    THEN LET old == (CHOOSE f \in dir : f.name = name).content
         IN {f \in dir : f.name # name}
            \cup {[name |-> name,
                   content |-> [content EXCEPT !.blocks = old.blocks \o @,
                                               !.includes = old.includes \o @,
                                               !.files = old.files \o @,
                                               !.paths = old.paths \o @,
                                               !.mimes = old.mimes \o @]]}
    ELSE dir \cup {[name |-> name, content |-> content]}

\* with open(path, 'w') as f: f.write(content)
WriteFile(dir, name, content) ==
    {f \in dir : f.name # name} \cup {[name |-> name, content |-> content]}

\* f.write(text) on the handle opened by CombinedStart: the file grows to content
FileWrite(dir, name, content) ==
    {f \in dir : f.name # name} \cup {[name |-> name, content |-> content]}

HasFile(dir, name) == \E f \in dir : f.name = name

ReadFile(dir, name) == (CHOOSE f \in dir : f.name = name).content

\* an exception nobody catches ends main: no handler in either script
UncaughtSwallowed(at) == at

Uncaught(at) == "failed"

SummaryLine(n) == [kind |-> "summary", count |-> n]

ProcessedLine(rel_path, var_name) ==
    [kind |-> "processed", rel |-> rel_path, var |-> var_name]

-----------------------------------------------------------------------------
(* bundle_web_files.py: main *)

\* the (file_path, rel_path) pairs appended by the traversal loop
CombinedWebFiles ==
    LET paths == CollectWalk(Walk(Str_web))
    IN [k \in 1..Len(paths) |->
          [file_path |-> paths[k], rel_path |-> RelPath(paths[k], Str_web)]]

\* the three loops over web_files that fill the maps
CombinedFilesEntries(wf) ==
    [k \in 1..Len(wf) |->
        Entry(TRUE, wf[k].rel_path, sanitize_var_name(wf[k].rel_path))]

CombinedPathsEntries(wf) ==
    [k \in 1..Len(wf) |->
        Entry(TRUE, wf[k].rel_path, sanitize_var_name(wf[k].rel_path) \o Str_path)]

CombinedMimesEntries(wf) ==
    [k \in 1..Len(wf) |->
        Entry(TRUE, wf[k].rel_path, sanitize_var_name(wf[k].rel_path) \o Str_mime)]

\* the walk, then open(web_bundle.hpp, "w") and the fixed prologue
CombinedStart ==
    /\ pc = "idle" /\ run < MaxRuns
    /\ run' = run + 1
    /\ mode' = "combined"
    /\ web_files' = CombinedWebFiles
    /\ next_file' = 1
    /\ outDir' = WriteFile(outDir, Str_web_bundle_hpp, EmptyFile("combined"))
    /\ pc' = "files"
    /\ UNCHANGED <<pureVars, fs, data, processed_files, stdout, ioError, lastRun>>

\* open(web_bundle.hpp, "w") or os.makedirs raises
CombinedOpenFail ==
    /\ pc = "idle" /\ run < MaxRuns
    /\ run' = run + 1
    /\ mode' = "combined"
    /\ web_files' = CombinedWebFiles
    /\ next_file' = 1
    /\ ioError' = TRUE
    /\ pc' = Uncaught(pc)
    /\ UNCHANGED <<pureVars, fs, data, processed_files, outDir, stdout, lastRun>>

\* one iteration of "for file_path, rel_path in web_files"
CombinedAddFile ==
    /\ pc = "files" /\ mode = "combined" /\ next_file <= Len(web_files)
    /\ LET w == web_files[next_file]
           out == ReadFile(outDir, Str_web_bundle_hpp)
       IN outDir' = FileWrite(outDir, Str_web_bundle_hpp,
                       [out EXCEPT !.blocks =
                           Append(@, Block(w.file_path, w.rel_path, data[w.file_path]))])
    /\ next_file' = next_file + 1
    /\ UNCHANGED <<pureVars, fs, data, run, mode, pc, web_files,
                   processed_files, stdout, ioError, lastRun>>

\* the iteration whose open(file_path, "rb") or read() raises: the comment
\* and the opening line of the array are already written
CombinedReadFail ==
    /\ pc = "files" /\ mode = "combined" /\ next_file <= Len(web_files)
    /\ LET w == web_files[next_file]
           out == ReadFile(outDir, Str_web_bundle_hpp)
       IN outDir' = FileWrite(outDir, Str_web_bundle_hpp,
                       [out EXCEPT !.blocks = Append(@, OpenBlock(w.rel_path))])
    /\ ioError' = TRUE
    /\ pc' = Uncaught(pc)
    /\ UNCHANGED <<pureVars, fs, data, run, mode, web_files, next_file,
                   processed_files, stdout, lastRun>>

\* the helper functions, the closing of the file and the summary line
CombinedFinish ==
    /\ pc = "files" /\ mode = "combined" /\ next_file > Len(web_files)
    /\ LET out == ReadFile(outDir, Str_web_bundle_hpp)
       IN outDir' = FileWrite(outDir, Str_web_bundle_hpp,
                       [out EXCEPT !.files = CombinedFilesEntries(web_files),
                                   !.paths = CombinedPathsEntries(web_files),
                                   !.mimes = CombinedMimesEntries(web_files),
                                   !.whole = TRUE])
    /\ stdout' = Append(stdout, SummaryLine(Len(web_files)))
    /\ pc' = "done"
    /\ UNCHANGED <<pureVars, fs, data, run, mode, web_files, next_file,
                   processed_files, ioError, lastRun>>

-----------------------------------------------------------------------------
(* tools/web_bundler.py: process_file, generate_index_file, main *)

\* the file_path strings appended by the traversal loop of main
SplitWebFiles(web_dir) == CollectWalk(Walk(web_dir))

\* rel_path and var_name as process_file computes them
ProcessRelPath(file_path) == RelPath(file_path, Str_web)

ProcessVarName(file_path) == sanitize_var_name(ProcessRelPath(file_path))

\* the header process_file writes for one asset
AssetHeader(file_path, content) ==
    [EmptyFile("asset") EXCEPT
        !.blocks = <<Block(file_path, ProcessRelPath(file_path), content)>>,
        !.whole = TRUE]

\* the index generate_index_file writes for files = [(rel_path, var_name)]
IndexFile(files) ==
    [kind |-> "index",
     includes |-> [k \in 1..Len(files) |-> files[k].var_name],
     blocks |-> <<>>,
     files |-> [k \in 1..Len(files) |->
                  Entry(TRUE, files[k].var_name \o Str_path, files[k].var_name)],
     paths |-> [k \in 1..Len(files) |->
                  Entry(TRUE, files[k].rel_path, files[k].var_name \o Str_path)],
     mimes |-> [k \in 1..Len(files) |->
                  Entry(FALSE, files[k].var_name \o Str_path, files[k].var_name \o Str_mime)],
     whole |-> TRUE]

\* argparse and the traversal loop; --web-dir names the asset root
SplitStart ==
    /\ pc = "idle" /\ run < MaxRuns
    /\ run' = run + 1
    /\ mode' = "split"
    /\ web_files' = SplitWebFiles(fs.root)
    /\ next_file' = 1
    /\ pc' = "files"
    /\ UNCHANGED <<pureVars, fs, data, processed_files, outDir, stdout, ioError, lastRun>>

\* one iteration of "for file_path in web_files": process_file and the print
SplitProcessFile ==
    /\ pc = "files" /\ mode = "split" /\ next_file <= Len(web_files)
    /\ LET file_path == web_files[next_file]
           rel_path == ProcessRelPath(file_path)
           var_name == ProcessVarName(file_path)
       IN /\ outDir' = WriteFile(outDir, var_name \o Str_hpp,
                                 AssetHeader(file_path, data[file_path]))
          /\ processed_files' = Append(processed_files,
                                       [rel_path |-> rel_path, var_name |-> var_name])
          /\ stdout' = Append(stdout, ProcessedLine(rel_path, var_name))
    /\ next_file' = next_file + 1
    /\ UNCHANGED <<pureVars, fs, data, run, mode, pc, web_files, ioError, lastRun>>

\* process_file: open(file_path, 'rb') or read() raises
SplitReadFail ==
    /\ pc = "files" /\ mode = "split" /\ next_file <= Len(web_files)
    /\ ioError' = TRUE
    /\ pc' = Uncaught(pc)
    /\ UNCHANGED <<pureVars, fs, data, run, mode, web_files, next_file,
                   processed_files, outDir, stdout, lastRun>>

\* process_file: os.makedirs or open(output_path, 'w') raises
SplitWriteFail ==
    /\ pc = "files" /\ mode = "split" /\ next_file <= Len(web_files)
    /\ ioError' = TRUE
    /\ pc' = Uncaught(pc)
    /\ UNCHANGED <<pureVars, fs, data, run, mode, web_files, next_file,
                   processed_files, outDir, stdout, lastRun>>

\* generate_index_file and the summary line
SplitIndex ==
    /\ pc = "files" /\ mode = "split" /\ next_file > Len(web_files)
    /\ outDir' = WriteFile(outDir, Str_web_bundle_hpp, IndexFile(processed_files))
    /\ stdout' = Append(stdout, SummaryLine(Len(processed_files)))
    /\ pc' = "done"
    /\ UNCHANGED <<pureVars, fs, data, run, mode, web_files, next_file,
                   processed_files, ioError, lastRun>>

\* generate_index_file: open(output_path, 'w') raises
SplitIndexFail ==
    /\ pc = "files" /\ mode = "split" /\ next_file > Len(web_files)
    /\ ioError' = TRUE
    /\ pc' = Uncaught(pc)
    /\ UNCHANGED <<pureVars, fs, data, run, mode, web_files, next_file,
                   processed_files, outDir, stdout, lastRun>>

\* the process ends; the generated files stay on disk for the next run
Exit ==
    /\ pc \in {"done", "failed"} /\ run < MaxRuns
    /\ lastRun' = [mode |-> mode, ok |-> pc = "done", out |-> outDir]
    /\ pc' = "idle"
    /\ mode' = "none"
    /\ web_files' = <<>>
    /\ next_file' = 0
    /\ processed_files' = <<>>
    /\ stdout' = <<>>
    /\ ioError' = FALSE
    /\ UNCHANGED <<pureVars, fs, data, run, outDir>>

-----------------------------------------------------------------------------
(* The runs of the bundlers over one asset tree *)

Name_a_dot_b == <<"a",".","b">>
Name_a_dash_b == <<"a","-","b">>
Name_hidden == <<".","h">>
Name_i_js == <<"i",".","j","s">>
Name_x == <<"x">>
Dir_hidden == <<".","d">>
Dir_c == <<"c">>
Str_w == <<"w">>

RootNames == {Name_a_dot_b, Name_a_dash_b, Name_hidden, Name_i_js}

WebDirs == {Str_web, Str_w}

Contents == {<<>>, <<60, 10>>}

\* the listings of a directory: sequences of distinct names
Listings(names, max) ==
    UNION {{l \in [1..n -> names] : \A i, j \in 1..n : i # j => l[i] # l[j]} : n \in 0..max}

DirListings ==
    {<<>>, <<[name |-> Dir_hidden, files |-> <<Name_x>>]>>,
           <<[name |-> Dir_c, files |-> <<Name_x>>]>>}

Trees ==
    {[root |-> r, files |-> l, dirs |-> d] :
        r \in WebDirs, l \in Listings(RootNames, MaxRootFiles), d \in DirListings}

NoRun == [mode |-> "none", ok |-> FALSE, out |-> {}]

PureIdle == arg = <<>> /\ res = [done |-> FALSE, val |-> <<>>]

BundlerIdle(tree, contents) ==
    /\ fs = tree
    /\ data = contents
    /\ run = 0
    /\ mode = "none"
    /\ pc = "idle"
    /\ web_files = <<>>
    /\ next_file = 0
    /\ processed_files = <<>>
    /\ outDir = {}
    /\ stdout = <<>>
    /\ ioError = FALSE
    /\ lastRun = NoRun

Init ==
    /\ PureIdle
    /\ \E tree \in Trees : \E contents \in [AllFilePaths(tree) -> Contents] :
          BundlerIdle(tree, contents)

Next ==
    \/ CombinedStart
    \/ CombinedOpenFail
    \/ CombinedAddFile
    \/ CombinedReadFail
    \/ CombinedFinish
    \/ SplitStart
    \/ SplitProcessFile
    \/ SplitReadFail
    \/ SplitWriteFail
    \/ SplitIndex
    \/ SplitIndexFail
    \/ Exit

Spec == Init /\ [][Next]_vars

-----------------------------------------------------------------------------
(* sanitize_var_name over generated relative paths *)

EmptyTree == [root |-> Str_web, files |-> <<>>, dirs |-> <<>>]

Path_css_main == <<"c","s","s","/","m","a","i","n","-","v","2",".","c","s","s">>
Path_3d_model == <<"3","d","/","m","o","d","e","l",".","j","s","o","n">>

SanChars == {"a", "Z", "7", ".", "/", "-", "_"}

SanSeeds == {<<c>> : c \in SanChars} \cup {Path_css_main, Path_3d_model}

InitSan ==
    /\ arg \in SanSeeds
    /\ res = [done |-> FALSE, val |-> <<>>]
    /\ BundlerIdle(EmptyTree, <<>>)

SanAppend ==
    /\ Len(arg) < MaxSanLen
    /\ \E c \in SanChars : arg' = Append(arg, c)
    /\ res' = [done |-> FALSE, val |-> <<>>]
    /\ UNCHANGED bundlerVars

SanApply ==
    /\ ~res.done
    /\ res' = [done |-> TRUE, val |-> sanitize_var_name(arg)]
    /\ UNCHANGED <<arg, bundlerVars>>

NextSan == SanAppend \/ SanApply

SpecSan == InitSan /\ [][NextSan]_vars

-----------------------------------------------------------------------------
(* get_mime_type over generated paths *)

Path_index_html == <<"i","n","d","e","x",".","h","t","m","l">>
Path_app_js == <<"a","p","p",".","j","s">>
Path_logo_svg == <<"l","o","g","o",".","s","v","g">>
Path_data_bin == <<"d","a","t","a",".","b","i","n">>
Path_PHOTO_JPEG == <<"w","e","b","/","i","m","g","/","P","H","O","T","O",".","J","P","E","G">>

MimeChars == {"a", "j", "s", "J", "S", ".", "/"}

MimeSeeds ==
    {<<c>> : c \in MimeChars}
    \cup {Path_index_html, Path_app_js, Path_logo_svg, Path_data_bin, Path_PHOTO_JPEG}

InitMime ==
    /\ arg \in MimeSeeds
    /\ res = [done |-> FALSE, val |-> ""]
    /\ BundlerIdle(EmptyTree, <<>>)

MimeAppend ==
    /\ Len(arg) < MaxPathLen
    /\ \E c \in MimeChars : arg' = Append(arg, c)
    /\ res' = [done |-> FALSE, val |-> ""]
    /\ UNCHANGED bundlerVars

MimeApply ==
    /\ ~res.done
    /\ res' = [done |-> TRUE, val |-> get_mime_type(arg)]
    /\ UNCHANGED <<arg, bundlerVars>>

NextMime == MimeAppend \/ MimeApply

SpecMime == InitMime /\ [][NextMime]_vars

-----------------------------------------------------------------------------
(* The byte-array literal over generated contents *)

ByteSamples == {0, 10, 15, 16, 171, 255}

SeedContent == <<60, 33, 100, 111, 99, 116, 121, 112, 101, 62, 10>>

SeedLen == Len(SeedContent)

InitHex ==
    /\ arg \in {<<>>, SeedContent}
    /\ res = [done |-> FALSE, val |-> <<>>]
    /\ BundlerIdle(EmptyTree, <<>>)

HexAppend ==
    /\ \/ Len(arg) < MaxHexLen
       \/ Len(arg) >= SeedLen /\ Len(arg) < SeedLen + MaxHexLen
    /\ \E b \in ByteSamples : arg' = Append(arg, b)
    /\ res' = [done |-> FALSE, val |-> <<>>]
    /\ UNCHANGED bundlerVars

HexApply ==
    /\ ~res.done
    /\ res' = [done |-> TRUE, val |-> ByteLiteral(arg)]
    /\ UNCHANGED <<arg, bundlerVars>>

NextHex == HexAppend \/ HexApply

SpecHex == InitHex /\ [][NextHex]_vars

-----------------------------------------------------------------------------
(* What the generated C++ exposes *)

\* the declarations a translation unit including web_bundle.hpp sees
DeclaredBlocks(dir) ==
    LET idx == ReadFile(dir, Str_web_bundle_hpp)
    IN IF idx.kind = "combined" THEN Range(idx.blocks)
       ELSE UNION {Range(ReadFile(dir, idx.includes[k] \o Str_hpp).blocks) :
                      k \in {j \in 1..Len(idx.includes) :
                                HasFile(dir, idx.includes[j] \o Str_hpp)}}

ByteIds(dir) == {[id |-> b.var, val |-> DecodeLiteral(b.lit)] : b \in DeclaredBlocks(dir)}

PathIds(dir) == {[id |-> b.var \o Str_path, val |-> b.path] : b \in DeclaredBlocks(dir)}

MimeIds(dir) == {[id |-> b.var \o Str_mime, val |-> b.mime] : b \in DeclaredBlocks(dir)}

ValueOf(ids, id) == (CHOOSE d \in ids : d.id = id).val

\* the std::unordered_map built by a sequence of  map[key] = value;
EvalMap(dir, entries) ==
    LET key(e) == IF e.literal THEN e.key ELSE ValueOf(PathIds(dir), e.key)
    IN {[key |-> key(entries[k]), val |-> entries[k].val] :
            k \in {i \in 1..Len(entries) :
                      \A j \in (i + 1)..Len(entries) : key(entries[j]) # key(entries[i])}}

get_bundled_files(dir) == EvalMap(dir, ReadFile(dir, Str_web_bundle_hpp).files)

get_bundled_file_paths(dir) == EvalMap(dir, ReadFile(dir, Str_web_bundle_hpp).paths)

get_bundled_file_mime_types(dir) == EvalMap(dir, ReadFile(dir, Str_web_bundle_hpp).mimes)

NullPtr == [found |-> FALSE, var |-> <<>>]

get_bundled_file(dir, path) ==
    LET files == get_bundled_files(dir)
    IN IF \E e \in files : e.key = path
       THEN [found |-> TRUE, var |-> (CHOOSE e \in files : e.key = path).val]
       ELSE NullPtr

LogicalContent(dir) ==
    [bytes |-> ByteIds(dir), paths |-> PathIds(dir), mimes |-> MimeIds(dir),
     get_bundled_files |-> get_bundled_files(dir),
     get_bundled_file_paths |-> get_bundled_file_paths(dir),
     get_bundled_file_mime_types |-> get_bundled_file_mime_types(dir)]

\* the assets of the current run: source file, stored path, symbolic name
Assets ==
    IF mode = "combined"
    THEN {[file_path |-> web_files[k].file_path, rel_path |-> web_files[k].rel_path,
           var_name |-> sanitize_var_name(web_files[k].rel_path)] : k \in 1..Len(web_files)}
    ELSE {[file_path |-> web_files[k], rel_path |-> processed_files[k].rel_path,
           var_name |-> processed_files[k].var_name] : k \in 1..Len(processed_files)}

NamesDistinct == \A a, b \in Assets : a.var_name = b.var_name => a = b

\* the path of a file below the asset root
TreePath(file_path) == JoinAll(Tail(Components(file_path)))

-----------------------------------------------------------------------------
(* Claims *)

\* C1: every run that completes successfully bundled assets whose symbolic
\* names are pairwise distinct (a collision makes the run fail).
C1_CollisionFailsRun == pc = "done" => NamesDistinct

\* C2: over the same assets under web/, with distinct symbolic names, the
\* combined-mode output and the split-mode output expose the same identifiers
\* with the same values and the same three maps.
C2_ModesExposeSameContent ==
    ( /\ pc = "done" /\ lastRun.ok /\ lastRun.mode \notin {mode, "none"}
      /\ fs.root = Str_web /\ NamesDistinct )
    => LogicalContent(outDir) = LogicalContent(lastRun.out)

\* C3: in the index of a completed run (symbolic names distinct),
\* get_bundled_file(p) returns the handle of the asset stored under relative
\* path p, whose bytes equal the source file, and null for any other p.
C3_LookupByStoredPath ==
    (pc = "done" /\ NamesDistinct)
    => /\ \A a \in Assets :
            LET h == get_bundled_file(outDir, a.rel_path)
            IN h.found /\ ValueOf(ByteIds(outDir), h.var) = data[a.file_path]
       /\ \A a \in Assets :
            (\A b \in Assets : b.rel_path # a.var_name \o Str_path)
            => get_bundled_file(outDir, a.var_name \o Str_path) = NullPtr

\* C4: no file whose name starts with '.' and no file under a directory whose
\* name starts with '.' is ever collected as an asset.
C4_HiddenSkipped ==
    \A k \in 1..Len(web_files) :
        LET file_path == IF mode = "combined" THEN web_files[k].file_path ELSE web_files[k]
            parts == Tail(Components(file_path))
        IN \A i \in 1..Len(parts) : ~IsHiddenName(parts[i])

\* C5: in split mode the relative path stored for each processed asset is its
\* path relative to the directory given by --web-dir.
C5_RelPathFromWebDir ==
    mode = "split" =>
        \A k \in 1..Len(processed_files) :
            processed_files[k].rel_path = TreePath(web_files[k])

\* C6: the symbolic name matches [_A-Za-z][_A-Za-z0-9]*: each character of the
\* path outside [A-Za-z0-9] became '_', the others are kept, and '_' is
\* prepended exactly when the path starts with a digit.
C6_SanitizedIsIdentifier ==
    res.done =>
        LET v == res.val
            off == Len(v) - Len(arg)
        IN /\ Len(v) >= 1
           /\ v[1] \in Lowers \cup Uppers \cup {"_"}
           /\ \A i \in 1..Len(v) : v[i] \in Alnum \cup {"_"}
           /\ off = (IF arg[1] \in Digits THEN 1 ELSE 0)
           /\ off = 1 => v[1] = "_"
           /\ \A i \in 1..Len(arg) :
                v[i + off] = (IF arg[i] \in Alnum THEN arg[i] ELSE "_")
           /\ arg = Path_css_main => v = <<"c","s","s","_","m","a","i","n","_","v","2","_","c","s","s">>
           /\ arg = Path_3d_model => v = <<"_","3","d","_","m","o","d","e","l","_","j","s","o","n">>

C6_DigitFirstSanitized ==
    /\ res.done
    /\ arg[1] \in Digits
    /\ \E i \in 1..Len(arg) : arg[i] \notin Alnum

\* C7: the literal lists one element 0xHH per byte of the content, in order,
\* with exactly two hexadecimal digits, and decoding it gives the content back.
C7_LiteralRoundTrip ==
    res.done =>
        LET els == Elements(res.val)
        IN /\ Len(els) = Len(arg)
           /\ \A i \in 1..Len(els) :
                /\ Len(els[i]) = 4
                /\ els[i][1] = "0" /\ els[i][2] = "x"
                /\ els[i][3] \in Range(HexChars) /\ els[i][4] \in Range(HexChars)
                /\ 16 * HexValue(els[i][3]) + HexValue(els[i][4]) = arg[i]
           /\ DecodeLiteral(res.val) = arg

C7_LiteralPastLineBreak ==
    /\ res.done
    /\ Len(arg) > 12
    /\ \E i \in 1..Len(arg) : arg[i] < 16

\* C8: once a read or a write has failed the run is over with the error: it
\* is in the failed state, has printed no summary line, and no later step
\* processes an asset, writes output or prints.
C8_IoErrorAbortsRun ==
    [][ioError' =>
          /\ pc' = "failed"
          /\ \A i \in 1..Len(stdout') : stdout'[i].kind # "summary"
          /\ ioError => UNCHANGED <<next_file, processed_files, outDir, stdout>>]_vars

C8_FailedMidRun ==
    /\ ioError /\ pc = "failed"
    /\ next_file > 1 /\ next_file <= Len(web_files)

\* C9: a run that completes right after a completed run of the same bundler
\* over the same tree leaves the output directory exactly as that run left it.
C9_RerunReproducesOutput ==
    (pc = "done" /\ lastRun.ok /\ lastRun.mode = mode) => outDir = lastRun.out

C9_RerunDone ==
    /\ pc = "done" /\ lastRun.ok /\ lastRun.mode = mode
    /\ Len(web_files) >= 2

\* the table as documented: extension without its dot, MIME string
DocumentedTable ==
    { <<<<"h","t","m","l">>, "text/html">>,
      <<<<"c","s","s">>, "text/css">>,
      <<<<"j","s">>, "application/javascript">>,
      <<<<"j","s","o","n">>, "application/json">>,
      <<<<"p","n","g">>, "image/png">>,
      <<<<"j","p","g">>, "image/jpeg">>,
      <<<<"j","p","e","g">>, "image/jpeg">>,
      <<<<"g","i","f">>, "image/gif">>,
      <<<<"s","v","g">>, "image/svg+xml">>,
      <<<<"i","c","o">>, "image/x-icon">> }

\* C10: the result is the MIME string of the table entry whose extension is
\* the lowercased text after the last dot of the last path component (when a
\* character other than '.' precedes that dot), and application/octet-stream
\* when there is no such entry.
C10_MimeFromExtension ==
    res.done =>
        LET table_set == DocumentedTable
            name == From(arg, RFind(arg, "/") + 1)
            n == Len(name)
            matches == {e \in table_set :
                           /\ n > Len(e[1]) + 1
                           /\ Lower(From(name, n - Len(e[1]) + 1)) = e[1]
                           /\ name[n - Len(e[1])] = "."
                           /\ \E k \in 1..(n - Len(e[1]) - 1) : name[k] # "."}
        IN /\ \A e \in matches : res.val = e[2]
           /\ matches = {} => res.val = "application/octet-stream"
           /\ arg = Path_index_html => res.val = "text/html"
           /\ arg = Path_app_js => res.val = "application/javascript"
           /\ arg = Path_logo_svg => res.val = "image/svg+xml"
           /\ arg = Path_data_bin => res.val = "application/octet-stream"

C10_UpperCaseExtension ==
    /\ res.done
    /\ res.val = "application/javascript"
    /\ \E i \in 1..Len(arg) : arg[i] \in Uppers

====
